---- MODULE Spec2Model ----
(***************************************************************************)
(* ya-ecs-ctl: the service deployment workflow of src/ya_ecs_ctl/main.py.  *)
(*                                                                         *)
(* Python values are modelled as follows.                                  *)
(*   - an optional value (None or v) is None == <<>> or Some(v) == <<v>>;  *)
(*   - a dict is a function whose domain is a set of strings, {} is the    *)
(*     empty function;                                                     *)
(*   - a str that the code inspects (the schedule interval) is a sequence  *)
(*     of one-character strings;                                           *)
(*   - an API call has an outcome: "ok" (a response with HTTPStatusCode    *)
(*     200), "bad" (a response with another status), "err" (the client     *)
(*     raises botocore's ClientError) and, for list_targets_by_rule,       *)
(*     "notfound" (the client raises ResourceNotFoundException).           *)
(***************************************************************************)
EXTENDS Integers, Sequences, FiniteSets, TLC

VARIABLES
    pc,           \* position of the running command: "idle" when none runs, "done"
                  \* when it has returned or raised and its process still holds its state
    cmd,          \* the command line: [op, desired, rev]
    service_def,  \* local service_def of the command: None or Some(dict)
    task_arn,     \* local task_arn of the command: None or Some([family, revision])
    calls,        \* API calls issued by the current (or last) command, in order
    result,       \* "running", "ok" (the command returned) or the exception raised
    latestRev,    \* ECS: the revision number handed out last
    service,      \* ECS: the scheduling strategy of the service, None without service
    rule,         \* CloudWatch Events: [exists, targets] of the schedule rule
    input,        \* argument(s) of the function under study (function-level specs)
    output        \* its result

vars == <<pc, cmd, service_def, task_arn, calls, result, latestRev, service, rule,
          input, output>>

----------------------------------------------------------------------------
\* Bounds of the model

\* revisions that may be registered for the family
MaxRev == 2

\* length of the interval strings typed in
MaxLen == 3

----------------------------------------------------------------------------
\* Python values

None == <<>>

Some(v) == <<v>>

\* the value inside Some(v)
The(o) == o[1]

EmptyDict == <<>>

\* d.get(k, None)
Get(d, k) == IF k \in DOMAIN d THEN Some(d[k]) ELSE None

\* d with d[k] = v
Put(d, k, v) == [x \in DOMAIN d \cup {k} |-> IF x = k THEN v ELSE d[x]]

\* d with d[k] = The(o) when o is not None
PutOpt(d, k, o) == IF o = None THEN d ELSE Put(d, k, The(o))

\* truth value of an optional dict, list or character sequence: None, {}, [] and
\* "" are false
Truthy(o) == o # None /\ The(o) # <<>>

\* truth value of an optional enumerated string (modelled as a TLA+ string)
TruthyStr(o) == o # None /\ The(o) # ""

----------------------------------------------------------------------------
\* create_schedule_expression: strings as sequences of characters

Chars == {"5", "2", "m", "h", "d", "a"}

Digits == {"0", "1", "2", "3", "4", "5", "6", "7", "8", "9"}

\* str.endswith(c) for a one-character c
EndsWith(s, c) == Len(s) > 0 /\ s[Len(s)] = c

\* str.split(c)[0]: the part before the first occurrence of c
RECURSIVE SplitFirst(_, _)
SplitFirst(s, c) ==
    IF s = <<>> \/ Head(s) = c THEN <<>>
    ELSE <<Head(s)>> \o SplitFirst(Tail(s), c)

\* "rate({} minutes)".format(n)
RateMinutes(n) == <<"r", "a", "t", "e", "(">> \o n \o <<" ", "m", "i", "n", "u", "t", "e", "s", ")">>

\* "rate({} hours)".format(n)
RateHours(n) == <<"r", "a", "t", "e", "(">> \o n \o <<" ", "h", "o", "u", "r", "s", ")">>

Raise(e) == [raised |-> e, value |-> None]

Return(v) == [raised |-> "none", value |-> Some(v)]

create_schedule_expression(fixed_interval) ==
    IF Truthy(fixed_interval) /\ EndsWith(The(fixed_interval), "m")
    THEN Return(RateMinutes(SplitFirst(The(fixed_interval), "m")))
    ELSE IF Truthy(fixed_interval) /\ EndsWith(The(fixed_interval), "h")
    THEN Return(RateHours(SplitFirst(The(fixed_interval), "h")))
    ELSE Raise("NotImplementedError")

----------------------------------------------------------------------------
\* create_service and update_service: the parameters of the API call

\* params["placementConstraints"]: {Type, Expression} to {type, expression}
TranslateConstraints(pcs) ==
    [i \in DOMAIN pcs |-> [type |-> pcs[i]["Type"], expression |-> pcs[i]["Expression"]]]

\* params["deploymentConfiguration"]: the two known sub-fields, when present
TranslateDeployment(dc) ==
    LET a == IF "MaximumPercent" \in DOMAIN dc
             THEN Put(EmptyDict, "maximumPercent", dc["MaximumPercent"])
             ELSE EmptyDict
    IN  IF "MinimumHealthyPercent" \in DOMAIN dc
        THEN Put(a, "minimumHealthyPercent", dc["MinimumHealthyPercent"])
        ELSE a

\* params["networkConfiguration"] from the AwsvpcConfiguration block
TranslateNetwork(vpc) ==
    [awsvpcConfiguration |->
        [subnets |-> vpc["Subnets"], securityGroups |-> vpc["SecurityGroups"]]]

\* An API call of the log: the client method, its parameters, its outcome and,
\* where the code reads it, what the response listed
Call(api, params, outcome) ==
    [api |-> api, params |-> params, outcome |-> outcome, listed |-> None]

Listing(api, params, outcome, listed) ==
    [api |-> api, params |-> params, outcome |-> outcome,
     listed |-> IF outcome = "ok" THEN Some(listed) ELSE None]

\* what a function hands back to its caller: the calls it issued and the
\* exception it raised ("none" when it returned)
Ran(cs, e) == [calls |-> cs, raised |-> e]

\* the client raises on "err" and on "notfound"; a response comes back otherwise
ClientRaises(o) == o \in {"err", "notfound"}

\* assert200Response: Exception unless the status is 200
assert200Response(o) == IF o = "ok" THEN "none" ELSE "Exception"

\* create_service with deployment_configuration passed on for FARGATE too
create_service_params_deployment_unguarded(a) ==
    LET notFargate == a.launch_type # Some("FARGATE")
        p1 == IF TruthyStr(a.launch_type)
              THEN Put(EmptyDict, "launchType", The(a.launch_type))
              ELSE EmptyDict
        p2 == IF a.scheduling_strategy # Some("DAEMON")
              THEN LET q == PutOpt(p1, "desiredCount", a.desired_count)
                   IN  IF a.placement_strategy # None /\ notFargate
                       THEN Put(q, "placementStrategy", The(a.placement_strategy))
                       ELSE q
              ELSE p1
        p3 == IF a.scheduling_strategy # None /\ notFargate
              THEN Put(p2, "schedulingStrategy", The(a.scheduling_strategy))
              ELSE p2
        p4 == IF a.placement_constraints # None /\ notFargate
              THEN Put(p3, "placementConstraints",
                       TranslateConstraints(The(a.placement_constraints)))
              ELSE p3
        p5 == IF a.deployment_configuration # None
              THEN Put(p4, "deploymentConfiguration",
                       TranslateDeployment(The(a.deployment_configuration)))
              ELSE p4
        p6 == IF Truthy(a.network_configuration)
              THEN Put(p5, "networkConfiguration",
                       TranslateNetwork(The(a.network_configuration)["AwsvpcConfiguration"]))
              ELSE p5
    IN  Put(p6, "taskDefinition", a.task_definition)

\* create_service: the params it builds from its keyword arguments a.
\* params['taskDefinition'] is set even to None: the optional value is kept.
create_service_params(a) ==
    LET notFargate == a.launch_type # Some("FARGATE")
        p1 == IF TruthyStr(a.launch_type)
              THEN Put(EmptyDict, "launchType", The(a.launch_type))
              ELSE EmptyDict
        p2 == IF a.scheduling_strategy # Some("DAEMON")
              THEN LET q == PutOpt(p1, "desiredCount", a.desired_count)
                   IN  IF a.placement_strategy # None /\ notFargate
                       THEN Put(q, "placementStrategy", The(a.placement_strategy))
                       ELSE q
              ELSE p1
        p3 == IF a.scheduling_strategy # None /\ notFargate
              THEN Put(p2, "schedulingStrategy", The(a.scheduling_strategy))
              ELSE p2
        p4 == IF a.placement_constraints # None /\ notFargate
              THEN Put(p3, "placementConstraints",
                       TranslateConstraints(The(a.placement_constraints)))
              ELSE p3
        p5 == IF a.deployment_configuration # None /\ notFargate
              THEN Put(p4, "deploymentConfiguration",
                       TranslateDeployment(The(a.deployment_configuration)))
              ELSE p4
        p6 == IF Truthy(a.network_configuration)
              THEN Put(p5, "networkConfiguration",
                       TranslateNetwork(The(a.network_configuration)["AwsvpcConfiguration"]))
              ELSE p5
    IN  Put(p6, "taskDefinition", a.task_definition)

\* create_service: builds params, calls ecs.create_service, asserts status 200.
\* a: the keyword arguments; o: the outcome of the API call. A truthy
\* network_configuration without its AwsvpcConfiguration block, or a block
\* without Subnets or SecurityGroups, raises KeyError before the call.
create_service(a, o) ==
    LET nc == a.network_configuration
    IN  IF Truthy(nc) /\ ("AwsvpcConfiguration" \notin DOMAIN The(nc)
                          \/ "Subnets" \notin DOMAIN The(nc)["AwsvpcConfiguration"]
                          \/ "SecurityGroups" \notin DOMAIN The(nc)["AwsvpcConfiguration"])
        THEN Ran(<<>>, "KeyError")
        ELSE Ran(<<Call("create_service", create_service_params(a), o)>>,
                 IF ClientRaises(o) THEN "ClientError" ELSE assert200Response(o))

\* update_service: builds params, calls ecs.update_service, raises Exception
\* unless the status is 200.
update_service(a, o) ==
    LET p1 == IF a.force_new_deployment
              THEN Put(EmptyDict, "forceNewDeployment", TRUE)
              ELSE EmptyDict
        p2 == IF a.scheduling_strategy # Some("DAEMON")
              THEN PutOpt(p1, "desiredCount", a.desired_count)
              ELSE p1
        params == PutOpt(p2, "taskDefinition", a.task_definition)
    IN  Ran(<<Call("update_service", params, o)>>,
            IF ClientRaises(o) THEN "ClientError"
            ELSE IF o # "ok" THEN "Exception" ELSE "none")

\* delete_service: calls ecs.delete_service, asserts status 200.
delete_service(o) ==
    Ran(<<Call("delete_service", EmptyDict, o)>>,
        IF ClientRaises(o) THEN "ClientError" ELSE assert200Response(o))

----------------------------------------------------------------------------
\* Schedule rules (CloudWatch Events)

\* the rule of the events API: whether it exists and the targets attached,
\* each [Id, TaskDefinitionArn]
NoRule == [exists |-> FALSE, targets |-> {}]

\* What the events API answers: a rule that holds targets is not deleted, and a
\* target is not attached to a rule that does not exist.
Refused(o, refuse) == IF o = "ok" /\ refuse THEN "err" ELSE o

\* [t['Id'] for t in response['Targets']]
TargetIds(r) == {t.Id : t \in r.targets}

\* the delete_rule call that ends delete_schedule, with the targets in left
\* still attached and the calls in before already issued
DeleteRule(name, r, left, od, before) ==
    LET odel == Refused(od, left # {})
    IN  [calls |-> before \o <<Call("delete_rule", [Name |-> name], odel)>>,
         raised |-> IF ClientRaises(odel) THEN "ClientError" ELSE assert200Response(odel),
         rule |-> IF odel = "ok" THEN NoRule ELSE [r EXCEPT !.targets = left]]

\* delete_schedule without the except clause for ResourceNotFoundException
delete_schedule_notfound_raises(name, r, ol, orm, od) ==
    LET ids == TargetIds(r)
        list == Listing("list_targets_by_rule", [Rule |-> name], ol, ids)
        remove == Call("remove_targets", [Rule |-> name, Ids |-> ids], orm)
    IN  IF ol = "notfound" THEN [calls |-> <<list>>, raised |-> "ClientError", rule |-> r]
        ELSE IF ClientRaises(ol) THEN [calls |-> <<list>>, raised |-> "ClientError", rule |-> r]
        ELSE IF assert200Response(ol) # "none"
        THEN [calls |-> <<list>>, raised |-> "Exception", rule |-> r]
        ELSE IF ids # {}
        THEN IF ClientRaises(orm)
             THEN [calls |-> <<list, remove>>, raised |-> "ClientError", rule |-> r]
             ELSE IF assert200Response(orm) # "none"
             THEN [calls |-> <<list, remove>>, raised |-> "Exception", rule |-> r]
             ELSE DeleteRule(name, r, IF orm = "ok" THEN {} ELSE r.targets, od, <<list, remove>>)
        ELSE DeleteRule(name, r, r.targets, od, <<list>>)

\* delete_schedule without the assert on the response of remove_targets
delete_schedule_remove_unasserted(name, r, ol, orm, od) ==
    LET ids == TargetIds(r)
        list == Listing("list_targets_by_rule", [Rule |-> name], ol, ids)
        remove == Call("remove_targets", [Rule |-> name, Ids |-> ids], orm)
    IN  IF ol = "notfound" THEN [calls |-> <<list>>, raised |-> "none", rule |-> r]
        ELSE IF ClientRaises(ol) THEN [calls |-> <<list>>, raised |-> "ClientError", rule |-> r]
        ELSE IF assert200Response(ol) # "none"
        THEN [calls |-> <<list>>, raised |-> "Exception", rule |-> r]
        ELSE IF ids # {}
        THEN IF ClientRaises(orm)
             THEN [calls |-> <<list, remove>>, raised |-> "ClientError", rule |-> r]
             ELSE IF FALSE
             THEN [calls |-> <<list, remove>>, raised |-> "Exception", rule |-> r]
             ELSE DeleteRule(name, r, IF orm = "ok" THEN {} ELSE r.targets, od, <<list, remove>>)
        ELSE DeleteRule(name, r, r.targets, od, <<list>>)

\* delete_schedule(name) on rule r; ol, orm, od: the outcomes of
\* list_targets_by_rule, remove_targets and delete_rule.
delete_schedule(name, r, ol, orm, od) ==
    LET ids == TargetIds(r)
        list == Listing("list_targets_by_rule", [Rule |-> name], ol, ids)
        remove == Call("remove_targets", [Rule |-> name, Ids |-> ids], orm)
    IN  IF ol = "notfound" THEN [calls |-> <<list>>, raised |-> "none", rule |-> r]
        ELSE IF ClientRaises(ol) THEN [calls |-> <<list>>, raised |-> "ClientError", rule |-> r]
        ELSE IF assert200Response(ol) # "none"
        THEN [calls |-> <<list>>, raised |-> "Exception", rule |-> r]
        ELSE IF ids # {}
        THEN IF ClientRaises(orm)
             THEN [calls |-> <<list, remove>>, raised |-> "ClientError", rule |-> r]
             ELSE IF assert200Response(orm) # "none"
             THEN [calls |-> <<list, remove>>, raised |-> "Exception", rule |-> r]
             ELSE DeleteRule(name, r, IF orm = "ok" THEN {} ELSE r.targets, od, <<list, remove>>)
        ELSE DeleteRule(name, r, r.targets, od, <<list>>)

\* the target create_schedule attaches for FARGATE
FargateTarget(a) ==
    [Id |-> a.name, Arn |-> a.cluster_arn, RoleArn |-> a.role_arn,
     EcsParameters |->
        [TaskDefinitionArn |-> a.task_arn, TaskCount |-> 1, LaunchType |-> "FARGATE",
         NetworkConfiguration |->
            [awsvpcConfiguration |->
                [Subnets |-> The(a.network_configuration)["AwsvpcConfiguration"]["Subnets"],
                 SecurityGroups |->
                    The(a.network_configuration)["AwsvpcConfiguration"]["SecurityGroups"],
                 AssignPublicIp |-> "DISABLED"]],
         PlatformVersion |-> "LATEST"]]

\* the target create_schedule attaches otherwise
Ec2Target(a) ==
    [Id |-> a.name, Arn |-> a.cluster_arn, RoleArn |-> a.role_arn,
     EcsParameters |->
        [TaskDefinitionArn |-> a.task_arn, TaskCount |-> 1, LaunchType |-> "EC2"]]

\* create_schedule on rule r; op, ot: the outcomes of put_rule and put_targets.
\* The response of put_rule is overwritten by that of put_targets: only the
\* latter is asserted.
create_schedule(a, r, op, ot) ==
    LET schedule == create_schedule_expression(a.fixed_interval)
        putRule == Call("put_rule",
                        [Name |-> a.name, ScheduleExpression |-> schedule.value,
                         State |-> "ENABLED"], op)
        r1 == IF op = "ok" THEN [r EXCEPT !.exists = TRUE] ELSE r
        fargate == a.launch_type = Some("FARGATE") /\ Truthy(a.network_configuration)
        target == IF fargate THEN FargateTarget(a) ELSE Ec2Target(a)
        otg == Refused(ot, ~r1.exists)
        putTargets == Call("put_targets", [Rule |-> a.name, Targets |-> <<target>>], otg)
        attached == [Id |-> a.name, TaskDefinitionArn |-> a.task_arn]
        r2 == IF otg = "ok"
              THEN [r1 EXCEPT !.targets = {t \in @ : t.Id # a.name} \cup {attached}]
              ELSE r1
    IN  IF schedule.raised # "none"
        THEN [calls |-> <<>>, raised |-> schedule.raised, rule |-> r]
        ELSE IF ClientRaises(op)
        THEN [calls |-> <<putRule>>, raised |-> "ClientError", rule |-> r]
        ELSE IF fargate /\ "AwsvpcConfiguration" \notin DOMAIN The(a.network_configuration)
        THEN [calls |-> <<putRule>>, raised |-> "NotImplementedError", rule |-> r1]
        ELSE IF fargate
                /\ ("Subnets" \notin DOMAIN The(a.network_configuration)["AwsvpcConfiguration"]
                    \/ "SecurityGroups" \notin
                            DOMAIN The(a.network_configuration)["AwsvpcConfiguration"])
        THEN [calls |-> <<putRule>>, raised |-> "KeyError", rule |-> r1]
        ELSE [calls |-> <<putRule, putTargets>>,
              raised |-> IF ClientRaises(otg) THEN "ClientError" ELSE assert200Response(otg),
              rule |-> r2]

----------------------------------------------------------------------------
\* Task definitions and their log groups; a log group name is a sequence of
\* characters

\* s.startswith(p)
IsPrefix(p, s) == Len(p) <= Len(s) /\ SubSeq(s, 1, Len(p)) = p

\* create_log_group skipping the creation when a listed group starts with name
create_log_group_prefix_match(name, lo) ==
    LET describe == Call("describe_log_groups", [logGroupNamePrefix |-> name], lo.describe)
        create == Call("create_log_group", [logGroupName |-> name], lo.create)
    IN  IF ClientRaises(lo.describe) THEN Ran(<<describe>>, "ClientError")
        ELSE IF \E l \in lo.listed : IsPrefix(name, l) THEN Ran(<<describe>>, "none")
        ELSE Ran(<<describe, create>>,
                 IF ClientRaises(lo.create) THEN "ClientError" ELSE "none")

\* create_log_group(name). lo.describe: the outcome of describe_log_groups,
\* lo.listed: the names it lists; lo.create: the outcome of create_log_group,
\* whose response is not looked at.
create_log_group(name, lo) ==
    LET describe == Call("describe_log_groups", [logGroupNamePrefix |-> name], lo.describe)
        create == Call("create_log_group", [logGroupName |-> name], lo.create)
    IN  IF ClientRaises(lo.describe) THEN Ran(<<describe>>, "ClientError")
        ELSE IF name \in lo.listed THEN Ran(<<describe>>, "none")
        ELSE Ran(<<describe, create>>,
                 IF ClientRaises(lo.create) THEN "ClientError" ELSE "none")

\* c.get('logConfiguration', {}).get('logDriver')
LogDriver(c) ==
    Get(IF "logConfiguration" \in DOMAIN c THEN c["logConfiguration"] ELSE EmptyDict,
        "logDriver")

\* the set of awslogs-group values of the containers whose driver is awslogs
LogGroups(task_def) ==
    {task_def["containerDefinitions"][i]["logConfiguration"]["options"]["awslogs-group"] :
        i \in {j \in DOMAIN task_def["containerDefinitions"] :
                LogDriver(task_def["containerDefinitions"][j]) = Some("awslogs")}}

\* list(set(...)): the orders a set may be iterated in
Orders(S) ==
    {q \in [1..Cardinality(S) -> S] : \A i, j \in DOMAIN q : i # j => q[i] # q[j]}

\* for lg in log_groups: create_log_group(lg), stopping at the first exception
RECURSIVE EnsureLogGroups(_, _)
EnsureLogGroups(order, lgo) ==
    IF order = <<>> THEN Ran(<<>>, "none")
    ELSE LET first == create_log_group(Head(order), lgo[Head(order)])
             rest == EnsureLogGroups(Tail(order), lgo)
         IN  IF first.raised # "none" THEN first
             ELSE Ran(first.calls \o rest.calls, rest.raised)

\* register_task_def iterating over the list of groups, one entry per container
register_task_def_no_dedup(task_def, order, lgo, o, rev) ==
    LET cds == SelectSeq(task_def["containerDefinitions"],
                         LAMBDA c : LogDriver(c) = Some("awslogs"))
        log_groups == [i \in DOMAIN cds |->
                          cds[i]["logConfiguration"]["options"]["awslogs-group"]]
        groups == EnsureLogGroups(log_groups, lgo)
        register == Call("register_task_definition", [family |-> task_def["family"]], o)
        arn == [family |-> task_def["family"], revision |-> rev]
    IN  IF groups.raised # "none"
        THEN [calls |-> groups.calls, raised |-> groups.raised, arn |-> None]
        ELSE IF ClientRaises(o)
        THEN [calls |-> groups.calls \o <<register>>, raised |-> "ClientError", arn |-> None]
        ELSE IF o # "ok"
        THEN [calls |-> groups.calls \o <<register>>, raised |-> "Exception", arn |-> None]
        ELSE [calls |-> groups.calls \o <<register>>, raised |-> "none", arn |-> Some(arn)]

\* register_task_def(task_def). order: the iteration order of the log groups;
\* lgo: the outcomes of the log API per group; o: the outcome of
\* register_task_definition; rev: the revision ECS assigns.
register_task_def(task_def, order, lgo, o, rev) ==
    LET groups == EnsureLogGroups(order, lgo)
        register == Call("register_task_definition", [family |-> task_def["family"]], o)
        arn == [family |-> task_def["family"], revision |-> rev]
    IN  IF groups.raised # "none"
        THEN [calls |-> groups.calls, raised |-> groups.raised, arn |-> None]
        ELSE IF ClientRaises(o)
        THEN [calls |-> groups.calls \o <<register>>, raised |-> "ClientError", arn |-> None]
        ELSE IF o # "ok"
        THEN [calls |-> groups.calls \o <<register>>, raised |-> "Exception", arn |-> None]
        ELSE [calls |-> groups.calls \o <<register>>, raised |-> "none", arn |-> Some(arn)]

----------------------------------------------------------------------------
\* The service definition files: what get_service_def_from_file may return.
\* Every container carries the shared log configuration.

\* the name and the cluster given to the commands
Name == "web"

Cluster == "prod"

ClusterArn == "arn:aws:ecs:cluster/prod"

\* "{}-{}".format(cluster, name)
ScheduleName == "prod-web"

AwsLogs == Put(Put(EmptyDict, "logDriver", "awslogs"),
               "options", Put(EmptyDict, "awslogs-group", <<"g">>))

Vpc == Put(EmptyDict, "AwsvpcConfiguration",
           [Subnets |-> <<"subnet-1">>, SecurityGroups |-> <<"sg-1">>])

\* task_def['family']: the name of the service, or a name of its own
Families == {"web", "web-task"}

LogConfigurations == {EmptyDict, AwsLogs}

SchedulingStrategies == {None, Some("DAEMON")}

DesiredValues == {None, Some(3)}

LaunchTypes == {None, Some("EC2"), Some("FARGATE")}

NetworkConfigurations ==
    {None, Some(EmptyDict), Some(Put(EmptyDict, "Other", EmptyDict)), Some(Vpc)}

Schedules ==
    {None,
     Some([RoleARN |-> "role", FixedInterval |-> <<"5", "m">>]),
     Some([RoleARN |-> "role", FixedInterval |-> <<"5", "d">>])}

PlacementConstraints == {None, Some(<<[Type |-> "memberOf", Expression |-> "expr"]>>)}

DeploymentConfigurations ==
    {None, Some(EmptyDict), Some([MaximumPercent |-> 200]),
     Some([MaximumPercent |-> 200, MinimumHealthyPercent |-> 50])}

ServiceDef(fam, lc, ss, de, lt, nc, sc, pcs, dc) ==
    LET td == [family |-> fam,
               containerDefinitions |-> <<[name |-> "app", logConfiguration |-> lc]>>]
        d1 == PutOpt([TaskDefinition |-> td], "SchedulingStrategy", ss)
        d2 == PutOpt(d1, "Desired", de)
        d3 == PutOpt(d2, "LaunchType", lt)
        d4 == PutOpt(d3, "NetworkConfiguration", nc)
        d5 == PutOpt(d4, "Schedule", sc)
        d6 == PutOpt(d5, "PlacementConstraints", pcs)
    IN  PutOpt(d6, "DeploymentConfiguration", dc)

\* the files of the deployment workflow: their network configuration is absent
\* or complete
ServiceDefs ==
    {ServiceDef(fam, lc, ss, de, lt, nc, sc, None, None) :
        fam \in Families, lc \in LogConfigurations, ss \in SchedulingStrategies,
        de \in DesiredValues, lt \in LaunchTypes, nc \in {None, Some(Vpc)},
        sc \in Schedules}

\* get_service_def_from_file: the rendered definition, or the error of open()
\* when the service file is missing
get_service_def_from_file ==
    {[raised |-> "none", value |-> Some(d)] : d \in ServiceDefs}
        \cup {Raise("FileNotFoundError")}

----------------------------------------------------------------------------
\* The commands. A command runs from pc = "idle" to pc = "done"; it is split
\* where it calls one of the functions above.

Outcomes == {"ok", "bad", "err"}

\* outcomes of calls whose response status the code never reads
Unchecked == {"ok", "err"}

\* the log API outcomes for the groups of a task definition
LogOutcomes(groups) ==
    [groups -> [describe : Unchecked,
                listed : SUBSET {<<"g">>, <<"g", "x">>},
                create : Unchecked]]

\* the outcomes of list_targets_by_rule on rule r
ListOutcomes(r) == IF r.exists THEN Outcomes ELSE {"notfound", "err"}

\* the command ends: it returned, or raised e
Ends(e) ==
    /\ pc' = "done"
    /\ result' = IF e = "none" THEN "ok" ELSE e

\* the command goes on at position p unless e was raised
GoesOn(e, p) ==
    /\ pc' = IF e = "none" THEN p ELSE "done"
    /\ result' = IF e = "none" THEN "running" ELSE e

\* What ECS answers: update_service and delete_service succeed on a service
\* that exists, create_service on one that does not.
Answers(o, possible) == o = "ok" => possible

Starts(op, desired, rev) ==
    /\ pc = "idle"
    /\ cmd' = [op |-> op, desired |-> desired, rev |-> rev]
    /\ task_arn' = None

\* cmd_scale: one update_service call without a scheduling strategy
cmd_scale ==
    \E desired \in {0, 3}, o \in Outcomes :
        LET r == update_service([task_definition |-> None, scheduling_strategy |-> None,
                                 force_new_deployment |-> FALSE,
                                 desired_count |-> Some(desired)], o)
        IN  /\ Starts("scale", Some(desired), None)
            /\ Answers(o, service # None)
            /\ calls' = r.calls
            /\ Ends(r.raised)
            /\ service_def' = None
            /\ UNCHANGED <<latestRev, service, rule, input, output>>

\* cmd_redeploy: one update_service call forcing a new deployment
cmd_redeploy ==
    \E o \in Outcomes :
        LET r == update_service([task_definition |-> None, scheduling_strategy |-> None,
                                 force_new_deployment |-> TRUE,
                                 desired_count |-> None], o)
        IN  /\ Starts("redeploy", None, None)
            /\ Answers(o, service # None)
            /\ calls' = r.calls
            /\ Ends(r.raised)
            /\ service_def' = None
            /\ UNCHANGED <<latestRev, service, rule, input, output>>

\* scheduling_strategy = "REPLICA" unless the definition names one
SchedulingStrategyOf(d) ==
    IF "SchedulingStrategy" \in DOMAIN d THEN Some(d["SchedulingStrategy"]) ELSE Some("REPLICA")

\* desired = int(service_def['Desired']) when the definition names one
DesiredOf(d, desired) == IF "Desired" \in DOMAIN d THEN Some(d["Desired"]) ELSE desired

\* Default placement strategy of cmd_create_service
PlacementStrategy ==
    <<[type |-> "spread", field |-> "attribute:ecs.availability-zone"],
      [field |-> "instanceId", type |-> "spread"]>>

\* "{}:{}".format(name, rev)
TaskDefinitionRef(name, rev) == [family |-> name, revision |-> rev]

\* the render step of a command: service_def or the error of the missing file
Renders(next) ==
    \E f \in get_service_def_from_file :
        /\ service_def' = f.value
        /\ GoesOn(f.raised, next)

\* the register_task_def call of a command
Registers(next) ==
    LET td == The(service_def)["TaskDefinition"]
    IN  \E order \in Orders(LogGroups(td)), lgo \in LogOutcomes(LogGroups(td)),
           o \in Outcomes :
            LET r == register_task_def(td, order, lgo, o, latestRev + 1)
            IN  /\ o = "ok" => latestRev < MaxRev
                /\ calls' = calls \o r.calls
                /\ task_arn' = r.arn
                /\ latestRev' = IF r.arn # None THEN latestRev + 1 ELSE latestRev
                /\ GoesOn(r.raised, next)

\* cmd_create_service, up to the rendered definition
cmd_create_service ==
    /\ Starts("create", Some(1), None)
    /\ calls' = <<>>
    /\ Renders("create_register")
    /\ UNCHANGED <<latestRev, service, rule, input, output>>

cmd_create_service_register ==
    /\ pc = "create_register"
    /\ Registers("create_service")
    /\ UNCHANGED <<cmd, service_def, service, rule, input, output>>

\* the service ECS creates: REPLICA unless the call names a strategy
Created(params) ==
    IF "schedulingStrategy" \in DOMAIN params
    THEN Some(params["schedulingStrategy"])
    ELSE Some("REPLICA")

\* cmd_create_service: the create_service call
cmd_create_service_create ==
    /\ pc = "create_service"
    /\ \E o \in Outcomes :
        LET d == The(service_def)
            rev == The(task_arn).revision
            r == create_service(
                    [task_definition |-> Some(TaskDefinitionRef(Name, rev)),
                     placement_strategy |-> Some(PlacementStrategy),
                     placement_constraints |-> Get(d, "PlacementConstraints"),
                     deployment_configuration |-> Get(d, "DeploymentConfiguration"),
                     scheduling_strategy |-> SchedulingStrategyOf(d),
                     network_configuration |-> Get(d, "NetworkConfiguration"),
                     launch_type |-> Get(d, "LaunchType"),
                     desired_count |-> DesiredOf(d, cmd.desired)], o)
        IN  /\ Answers(o, service = None)
            /\ calls' = calls \o r.calls
            /\ service' = IF r.raised = "none" THEN Created(r.calls[1].params) ELSE service
            /\ GoesOn(r.raised, "create_cluster_arn")
    /\ UNCHANGED <<cmd, service_def, task_arn, latestRev, rule, input, output>>

\* get_cluster_arn: ecs.list_clusters, whatever the definition says
get_cluster_arn(o) ==
    Ran(<<Call("list_clusters", EmptyDict, o)>>,
        IF ClientRaises(o) THEN "ClientError" ELSE "none")

\* cmd_create_service: get_cluster_arn, then the schedule if there is one
cmd_create_service_cluster_arn ==
    /\ pc = "create_cluster_arn"
    /\ \E o \in Unchecked :
        LET r == get_cluster_arn(o)
        IN  /\ calls' = calls \o r.calls
            /\ IF r.raised = "none" /\ Truthy(Get(The(service_def), "Schedule"))
               THEN GoesOn("none", "create_schedule")
               ELSE Ends(r.raised)
    /\ UNCHANGED <<cmd, service_def, task_arn, latestRev, service, rule, input, output>>

\* cmd_create_service: the create_schedule call
cmd_create_service_schedule ==
    /\ pc = "create_schedule"
    /\ \E op \in Outcomes, ot \in Outcomes :
        LET d == The(service_def)
            schedule == d["Schedule"]
            r == create_schedule(
                    [name |-> ScheduleName,
                     role_arn |-> Get(schedule, "RoleARN"),
                     task_arn |-> The(task_arn),
                     launch_type |-> Get(d, "LaunchType"),
                     network_configuration |-> Get(d, "NetworkConfiguration"),
                     cluster_arn |-> Some(ClusterArn),
                     fixed_interval |-> Get(schedule, "FixedInterval")], rule, op, ot)
        IN  /\ calls' = calls \o r.calls
            /\ rule' = r.rule
            /\ Ends(r.raised)
    /\ UNCHANGED <<cmd, service_def, task_arn, latestRev, service, input, output>>

\* cmd_update_service, up to the rendered definition. With a revision given
\* nothing is rendered and scheduling_strategy is never bound: building the
\* arguments of update_service raises UnboundLocalError.
cmd_update_service ==
    \E rev \in {None, Some(0), Some(1)} :
        /\ Starts("update", Some(2), rev)
        /\ calls' = <<>>
        /\ IF rev = None \/ The(rev) = 0
           THEN Renders("update_register")
           ELSE service_def' = None /\ Ends("UnboundLocalError")
        /\ UNCHANGED <<latestRev, service, rule, input, output>>

cmd_update_service_register ==
    /\ pc = "update_register"
    /\ Registers("update_service")
    /\ UNCHANGED <<cmd, service_def, service, rule, input, output>>

\* cmd_update_service: the update_service call
cmd_update_service_update ==
    /\ pc = "update_service"
    /\ \E o \in Outcomes :
        LET d == The(service_def)
            rev == The(task_arn).revision
            r == update_service(
                    [task_definition |-> Some(TaskDefinitionRef(Name, rev)),
                     scheduling_strategy |-> SchedulingStrategyOf(d),
                     force_new_deployment |-> FALSE,
                     desired_count |-> DesiredOf(d, cmd.desired)], o)
        IN  /\ Answers(o, service # None)
            /\ calls' = calls \o r.calls
            /\ Ends(r.raised)
    /\ UNCHANGED <<cmd, service_def, task_arn, latestRev, service, rule, input, output>>

\* the scale-to-zero call of cmd_delete
ScaleToZero(o) ==
    update_service([task_definition |-> None, scheduling_strategy |-> None,
                    force_new_deployment |-> FALSE, desired_count |-> Some(0)], o)

\* cmd_delete with delete_service issued before the scale to zero
cmd_delete_before_scale ==
    \E ou \in Outcomes, od \in Outcomes :
        LET scale == ScaleToZero(ou)
            delete == delete_service(od)
        IN  /\ Starts("delete", None, None)
            /\ Answers(ou, service # None)
            /\ Answers(od, service # None)
            /\ service_def' = None
            /\ calls' = delete.calls \o scale.calls
            /\ service' = IF delete.raised = "none" THEN None ELSE service
            /\ GoesOn(delete.raised, "delete_render")
            /\ UNCHANGED <<latestRev, rule, input, output>>

\* cmd_delete without the try/except around the scale to zero
cmd_delete_no_except ==
    \E ou \in Outcomes, od \in Outcomes :
        LET scale == ScaleToZero(ou)
            delete == delete_service(od)
        IN  /\ Starts("delete", None, None)
            /\ Answers(ou, service # None)
            /\ Answers(od, service # None)
            /\ service_def' = None
            /\ IF scale.raised # "none"
               THEN /\ calls' = scale.calls
                    /\ service' = service
                    /\ Ends(scale.raised)
               ELSE /\ calls' = scale.calls \o delete.calls
                    /\ service' = IF delete.raised = "none" THEN None ELSE service
                    /\ GoesOn(delete.raised, "delete_render")
            /\ UNCHANGED <<latestRev, rule, input, output>>

\* cmd_delete: scale to zero, a ClientError of which is passed over, then
\* delete_service
cmd_delete ==
    \E ou \in Outcomes, od \in Outcomes :
        LET scale == ScaleToZero(ou)
            delete == delete_service(od)
        IN  /\ Starts("delete", None, None)
            /\ Answers(ou, service # None)
            /\ Answers(od, service # None)
            /\ service_def' = None
            /\ IF scale.raised \notin {"none", "ClientError"}
               THEN /\ calls' = scale.calls
                    /\ service' = service
                    /\ Ends(scale.raised)
               ELSE /\ calls' = scale.calls \o delete.calls
                    /\ service' = IF delete.raised = "none" THEN None ELSE service
                    /\ GoesOn(delete.raised, "delete_render")
            /\ UNCHANGED <<latestRev, rule, input, output>>

\* cmd_delete: the definition is rendered after the service is deleted
cmd_delete_render ==
    /\ pc = "delete_render"
    /\ \E f \in get_service_def_from_file :
        /\ service_def' = f.value
        /\ IF f.raised = "none" /\ "Schedule" \in DOMAIN The(f.value)
           THEN GoesOn("none", "delete_schedule")
           ELSE Ends(f.raised)
    /\ UNCHANGED <<cmd, task_arn, calls, latestRev, service, rule, input, output>>

\* cmd_delete: the delete_schedule call
cmd_delete_schedule ==
    /\ pc = "delete_schedule"
    /\ \E ol \in ListOutcomes(rule), orm \in Outcomes, od \in Outcomes :
        LET r == delete_schedule(ScheduleName, rule, ol, orm, od)
        IN  /\ calls' = calls \o r.calls
            /\ rule' = r.rule
            /\ Ends(r.raised)
    /\ UNCHANGED <<cmd, service_def, task_arn, latestRev, service, input, output>>

----------------------------------------------------------------------------
\* The tool: commands run one after the other against the same account.

\* a target attached to the rule by other means than this tool
ForeignTarget == [Id |-> "other", TaskDefinitionArn |-> [family |-> "other", revision |-> 1]]

NoCommand == [op |-> "none", desired |-> None, rev |-> None]

\* the process of the command exits: nothing of it is kept
exit ==
    /\ pc = "done"
    /\ pc' = "idle"
    /\ cmd' = NoCommand
    /\ service_def' = None
    /\ task_arn' = None
    /\ calls' = <<>>
    /\ result' = "none"
    /\ UNCHANGED <<latestRev, service, rule, input, output>>

Init ==
    /\ pc = "idle"
    /\ cmd = NoCommand
    /\ service_def = None
    /\ task_arn = None
    /\ calls = <<>>
    /\ result = "none"
    /\ latestRev = 0
    /\ service \in {None, Some("REPLICA"), Some("DAEMON")}
    /\ rule \in {NoRule, [exists |-> TRUE, targets |-> {ForeignTarget}]}
    /\ input = None
    /\ output = None

Next ==
    \/ cmd_scale
    \/ cmd_redeploy
    \/ cmd_create_service
    \/ cmd_create_service_register
    \/ cmd_create_service_create
    \/ cmd_create_service_cluster_arn
    \/ cmd_create_service_schedule
    \/ cmd_update_service
    \/ cmd_update_service_register
    \/ cmd_update_service_update
    \/ cmd_delete
    \/ cmd_delete_render
    \/ cmd_delete_schedule
    \/ exit

Spec == Init /\ [][Next]_vars

----------------------------------------------------------------------------
\* create_service on its own: every combination of its keyword arguments

\* no command runs and the account is untouched
NoWorkflow ==
    /\ pc = "idle"
    /\ cmd = NoCommand
    /\ service_def = None
    /\ task_arn = None
    /\ calls = <<>>
    /\ result = "none"
    /\ latestRev = 0
    /\ service = None
    /\ rule = NoRule

CreateServiceInputs ==
    [task_definition : {Some(TaskDefinitionRef(Name, 1))},
     placement_strategy : {None, Some(PlacementStrategy)},
     placement_constraints : PlacementConstraints,
     deployment_configuration : DeploymentConfigurations,
     scheduling_strategy : {None, Some("REPLICA"), Some("DAEMON")},
     network_configuration : NetworkConfigurations,
     launch_type : LaunchTypes,
     desired_count : {None, Some(0), Some(2)}]

InitParams ==
    /\ NoWorkflow
    /\ input \in CreateServiceInputs
    /\ output = None

apply_create_service ==
    /\ output = None
    /\ \E o \in Outcomes : output' = Some(create_service(input, o))
    /\ UNCHANGED <<pc, cmd, service_def, task_arn, calls, result, latestRev, service, rule, input>>

SpecParams == InitParams /\ [][apply_create_service]_vars

----------------------------------------------------------------------------
\* create_schedule on its own: every interval string up to MaxLen characters,
\* every launch type and network configuration

Intervals == {None} \cup {Some(s) : s \in UNION {[1..n -> Chars] : n \in 0..MaxLen}}

CreateScheduleInputs ==
    [name : {ScheduleName}, role_arn : {Some("role")},
     task_arn : {TaskDefinitionRef(Name, 1)}, cluster_arn : {Some(ClusterArn)},
     launch_type : LaunchTypes, network_configuration : NetworkConfigurations,
     fixed_interval : Intervals]

InitSchedule ==
    /\ NoWorkflow
    /\ input \in CreateScheduleInputs
    /\ output = None

apply_create_schedule ==
    /\ output = None
    /\ \E op \in Outcomes, ot \in Outcomes :
        output' = Some(create_schedule(input, rule, op, ot))
    /\ UNCHANGED <<pc, cmd, service_def, task_arn, calls, result, latestRev, service, rule, input>>

SpecSchedule == InitSchedule /\ [][apply_create_schedule]_vars

----------------------------------------------------------------------------
\* Properties of the delete command

\* the positions of the log where the client method api was called
At(api) == {i \in DOMAIN calls : calls[i].api = api}

\* the call at position i is the scale to zero
IsScaleToZero(i) ==
    calls[i].api = "update_service" /\ Get(calls[i].params, "desiredCount") = Some(0)

ScheduleApis == {"list_targets_by_rule", "remove_targets", "delete_rule"}

\* the running command read a definition that has a Schedule
HasSchedule == service_def # None /\ "Schedule" \in DOMAIN The(service_def)

\* C1: in cmd_delete, delete_service is issued only after the scale to zero was
\* attempted, the calls of delete_schedule only after delete_service answered
\* with success; a delete that returns for a definition with a Schedule has
\* issued scale to zero, delete_service and the schedule deletion in that order.
C1_DeleteOrder ==
    cmd.op = "delete" =>
        /\ \A i \in At("delete_service") : \E j \in 1..(i - 1) : IsScaleToZero(j)
        /\ \A i \in DOMAIN calls :
            calls[i].api \in ScheduleApis =>
                \E j \in 1..(i - 1) :
                    calls[j].api = "delete_service" /\ calls[j].outcome = "ok"
        /\ (pc = "done" /\ result = "ok" /\ HasSchedule) =>
                /\ Len(calls) >= 3
                /\ IsScaleToZero(1)
                /\ calls[2].api = "delete_service"
                /\ calls[3].api = "list_targets_by_rule"
                /\ At("update_service") = {1}
                /\ At("delete_service") = {2}

\* a delete of a service with a schedule that went through to delete_rule
C1_Witness ==
    /\ cmd.op = "delete" /\ pc = "done" /\ result = "ok" /\ HasSchedule
    /\ \E i \in At("delete_rule") : calls[i].outcome = "ok"

\* C2 as claimed: however the scale to zero fails, delete_service is issued.
C2_AnyFailureTolerated ==
    (cmd.op = "delete" /\ calls # <<>> /\ calls[1].outcome # "ok") =>
        At("delete_service") # {}

\* C2: a ClientError of the scale to zero is passed over and delete_service is
\* issued; a response whose status is not 200 raises Exception, the command
\* ends there and delete_service is not issued.
C2_ClientErrorTolerated ==
    (cmd.op = "delete" /\ calls # <<>>) =>
        /\ calls[1].outcome = "err" => At("delete_service") = {2}
        /\ calls[1].outcome = "bad" =>
            At("delete_service") = {} /\ pc = "done" /\ result = "Exception"

\* a delete whose scale to zero raised ClientError and whose delete_service succeeded
C2_Witness ==
    /\ cmd.op = "delete" /\ calls # <<>>
    /\ calls[1].outcome = "err"
    /\ \E i \in At("delete_service") : calls[i].outcome = "ok"

----------------------------------------------------------------------------
\* Properties of create_service

\* the params of the call create_service issued for its input
SentParams == The(output).calls[1].params

\* create_service was applied and issued its API call
Sent == output # None /\ The(output).calls # <<>>

FargateExcluded ==
    {"placementStrategy", "placementConstraints", "deploymentConfiguration",
     "schedulingStrategy"}

\* C3: with launch_type FARGATE the params sent hold none of placementStrategy,
\* placementConstraints, deploymentConfiguration, schedulingStrategy; with
\* launch_type EC2 or None, placementConstraints, deploymentConfiguration and
\* schedulingStrategy are each sent whenever the argument is given.
C3_LaunchTypeExclusion ==
    Sent =>
        /\ input.launch_type = Some("FARGATE") => DOMAIN SentParams \cap FargateExcluded = {}
        /\ input.launch_type \in {None, Some("EC2")} =>
            /\ input.placement_constraints # None =>
                /\ "placementConstraints" \in DOMAIN SentParams
                /\ Len(SentParams["placementConstraints"]) = Len(The(input.placement_constraints))
            /\ input.deployment_configuration # None =>
                "deploymentConfiguration" \in DOMAIN SentParams
            /\ input.scheduling_strategy # None =>
                /\ "schedulingStrategy" \in DOMAIN SentParams
                /\ SentParams["schedulingStrategy"] = The(input.scheduling_strategy)

\* a FARGATE call that was given every one of the four arguments
C3_Witness ==
    /\ Sent
    /\ input.launch_type = Some("FARGATE")
    /\ input.placement_strategy # None
    /\ input.placement_constraints # None
    /\ input.deployment_configuration # None
    /\ input.scheduling_strategy = Some("REPLICA")
    /\ "networkConfiguration" \in DOMAIN SentParams

----------------------------------------------------------------------------
\* Properties of the DAEMON strategy

\* the service the running command acts on is a DAEMON service: by the
\* definition the command rendered, or, for scale, by the service itself
DaemonService ==
    \/ /\ cmd.op \in {"create", "update"}
       /\ service_def # None
       /\ Get(The(service_def), "SchedulingStrategy") = Some("DAEMON")
    \/ cmd.op = "scale" /\ service = Some("DAEMON")

\* C4 as claimed: no create_service or update_service call of the create,
\* update and scale commands carries desiredCount for a DAEMON service.
C4_DaemonNoDesiredCount ==
    DaemonService =>
        \A i \in At("create_service") \cup At("update_service") :
            "desiredCount" \notin DOMAIN calls[i].params

----------------------------------------------------------------------------
\* Properties of create_schedule

\* n is a decimal integer
IsInteger(n) == Len(n) > 0 /\ \A i \in DOMAIN n : n[i] \in Digits

\* fixed_interval is <integer> followed by the suffix c
HasForm(fi, c) ==
    /\ fi # None
    /\ EndsWith(The(fi), c)
    /\ IsInteger(SubSeq(The(fi), 1, Len(The(fi)) - 1))

\* fixed_interval is <integer>m or <integer>h
SupportedInterval(fi) == HasForm(fi, "m") \/ HasForm(fi, "h")

\* N of <integer N><suffix>
IntegerOf(fi) == SubSeq(The(fi), 1, Len(The(fi)) - 1)

\* the run of create_schedule put a rule with this expression
PutRuleWith(run, expr) ==
    /\ run.calls # <<>>
    /\ run.calls[1].api = "put_rule"
    /\ run.calls[1].params.ScheduleExpression = Some(expr)

\* C5 as claimed: <integer N>m gives rate(N minutes), <integer N>h gives
\* rate(N hours); every other fixed_interval raises NotImplementedError and no
\* put_rule call is issued.
C5_IntervalOrFatal ==
    output # None =>
        LET fi == input.fixed_interval
            run == The(output)
        IN  IF HasForm(fi, "m") THEN PutRuleWith(run, RateMinutes(IntegerOf(fi)))
            ELSE IF HasForm(fi, "h") THEN PutRuleWith(run, RateHours(IntegerOf(fi)))
            ELSE run.raised = "NotImplementedError" /\ run.calls = <<>>

\* the put_targets calls of a run of create_schedule
PutTargets(run) == {i \in DOMAIN run.calls : run.calls[i].api = "put_targets"}

\* the one target of the put_targets call at position i
TargetAt(run, i) == run.calls[i].params.Targets[1]

\* C8 as claimed, for the intervals create_schedule_expression is meant to
\* take: a FARGATE schedule without (truthy) network configuration, or without
\* its AwsvpcConfiguration block, is rejected and attaches no target; a target
\* attached for FARGATE is a FARGATE target that forwards the subnets and
\* security groups, with public IP disabled and platform version LATEST; an
\* EC2 target is attached only for a launch type other than FARGATE.
C8_FargateNeedsNetwork ==
    (output # None /\ SupportedInterval(input.fixed_interval)) =>
        LET run == The(output)
            nc == input.network_configuration
            fargate == input.launch_type = Some("FARGATE")
        IN  /\ (fargate /\ (~Truthy(nc) \/ "AwsvpcConfiguration" \notin DOMAIN The(nc))) =>
                run.raised # "none" /\ PutTargets(run) = {}
            /\ \A i \in PutTargets(run) :
                LET ecs == TargetAt(run, i).EcsParameters
                IN  /\ ecs.LaunchType = "EC2" => ~fargate
                    /\ fargate =>
                        /\ ecs.LaunchType = "FARGATE"
                        /\ ecs.PlatformVersion = "LATEST"
                        /\ ecs.NetworkConfiguration.awsvpcConfiguration =
                            [Subnets |-> The(nc)["AwsvpcConfiguration"]["Subnets"],
                             SecurityGroups |-> The(nc)["AwsvpcConfiguration"]["SecurityGroups"],
                             AssignPublicIp |-> "DISABLED"]

----------------------------------------------------------------------------
\* Properties of delete_schedule

\* C6: when list_targets_by_rule answers that the rule does not exist,
\* delete_schedule returns without raising: cmd_delete ends normally, neither
\* remove_targets nor delete_rule is issued and the rule is left as it was.
C6_MissingRuleIsNoOp ==
    \A i \in At("list_targets_by_rule") :
        calls[i].outcome = "notfound" =>
            /\ pc = "done" /\ result = "ok"
            /\ i = Len(calls)
            /\ At("remove_targets") = {} /\ At("delete_rule") = {}
            /\ rule = NoRule

\* a delete whose schedule rule does not exist
C6_Witness ==
    /\ cmd.op = "delete" /\ HasSchedule
    /\ \E i \in At("list_targets_by_rule") : calls[i].outcome = "notfound"

----------------------------------------------------------------------------
\* Properties of the create and update commands

\* C9 as claimed: in the create command a call that fails is the last call
\* the command issues.
C9_FailureIsFatal ==
    cmd.op = "create" =>
        \A i \in DOMAIN calls : calls[i].outcome # "ok" => i = Len(calls)

\* C10 as claimed: when create, or update without a revision, returns for a
\* definition with a schedule (of a supported interval), the rule holds the
\* command's target and that target runs the task definition the command
\* registered.
C10_ScheduleReconciled ==
    (/\ pc = "done" /\ result = "ok"
     /\ cmd.op \in {"create", "update"}
     /\ service_def # None
     /\ Truthy(Get(The(service_def), "Schedule"))
     /\ SupportedInterval(Get(The(service_def)["Schedule"], "FixedInterval"))) =>
        \E t \in rule.targets :
            t.Id = ScheduleName /\ t.TaskDefinitionArn = The(task_arn)

----------------------------------------------------------------------------
\* register_task_def on its own: task definitions of up to MaxContainers
\* containers with every kind of log configuration, every iteration order of
\* the set of log groups and every answer of the log API

MaxContainers == 2

GroupNames == {<<"g">>, <<"h">>}

\* c['logConfiguration'] of a container: {logDriver, options: {awslogs-group}}
LogConfigurationOf(driver, group) ==
    Put(Put(EmptyDict, "logDriver", driver),
        "options", Put(EmptyDict, "awslogs-group", group))

\* the containers of a task definition: without logConfiguration, with an empty
\* one, with the awslogs driver, with another driver
ContainerDefinitions ==
    {[name |-> "app"], [name |-> "app", logConfiguration |-> EmptyDict],
     [name |-> "app", logConfiguration |-> LogConfigurationOf("awslogs", <<"g">>)],
     [name |-> "app", logConfiguration |-> LogConfigurationOf("awslogs", <<"h">>)],
     [name |-> "app", logConfiguration |-> LogConfigurationOf("json-file", <<"h">>)]}

TaskDefs ==
    {[family |-> "web", containerDefinitions |-> cds] :
        cds \in UNION {[1..n -> ContainerDefinitions] : n \in 0..MaxContainers}}

\* what logs.describe_log_groups(logGroupNamePrefix=name) may list: groups
\* whose name starts with name
ListedBy(name) == SUBSET {l \in {name, name \o <<"x">>} : IsPrefix(name, l)}

\* the answers of the log API for each group of a task definition
LogAnswers(groups) ==
    {lgo \in [groups -> [describe : Unchecked,
                         listed : UNION {ListedBy(n) : n \in groups},
                         create : Unchecked]] :
        \A n \in groups : lgo[n].listed \in ListedBy(n)}

RegisterInputs ==
    UNION {[task_def : {td}, order : Orders(LogGroups(td)),
            lgo : LogAnswers(LogGroups(td)), o : Outcomes] : td \in TaskDefs}

InitRegister ==
    /\ NoWorkflow
    /\ input \in RegisterInputs
    /\ output = None

apply_register_task_def ==
    /\ output = None
    /\ output' = Some(register_task_def(input.task_def, input.order, input.lgo, input.o, 1))
    /\ UNCHANGED <<pc, cmd, service_def, task_arn, calls, result, latestRev, service, rule, input>>

SpecRegister == InitRegister /\ [][apply_register_task_def]_vars

----------------------------------------------------------------------------
\* Properties of register_task_def

\* the calls register_task_def issued
Issued == The(output).calls

\* the positions of the existence checks and of the creations of group n
ChecksOf(n) ==
    {i \in DOMAIN Issued : /\ Issued[i].api = "describe_log_groups"
                           /\ Issued[i].params.logGroupNamePrefix = n}

CreationsOf(n) ==
    {i \in DOMAIN Issued : /\ Issued[i].api = "create_log_group"
                           /\ Issued[i].params.logGroupName = n}

\* the containers of the task definition whose log driver is awslogs and whose
\* awslogs-group is n
ReferencedBy(n) ==
    {i \in DOMAIN input.task_def["containerDefinitions"] :
        LET c == input.task_def["containerDefinitions"][i]
        IN  /\ "logConfiguration" \in DOMAIN c
            /\ Get(c["logConfiguration"], "logDriver") = Some("awslogs")
            /\ c["logConfiguration"]["options"]["awslogs-group"] = n}

\* a call of the log API raised
LogCallRaised == \E i \in DOMAIN Issued :
    /\ Issued[i].api \in {"describe_log_groups", "create_log_group"}
    /\ ClientRaises(Issued[i].outcome)

\* C11: register_task_def performs at most one existence check and at most one
\* creation for each group referenced by an awslogs container, however many
\* containers reference it, and exactly one existence check in every run in
\* which no call of the log API raised (a call that raises ends the function);
\* it performs no check and no creation for a group that only containers with
\* another driver, or none, name.
C11_OneCheckPerGroup ==
    output # None =>
        \A n \in GroupNames :
            IF ReferencedBy(n) # {}
            THEN /\ Cardinality(ChecksOf(n)) <= 1
                 /\ Cardinality(CreationsOf(n)) <= 1
                 /\ ~LogCallRaised => Cardinality(ChecksOf(n)) = 1
            ELSE ChecksOf(n) = {} /\ CreationsOf(n) = {}

\* two containers reference the same group, which is checked once and created
\* once before the registration
C11_Witness ==
    /\ output # None
    /\ Cardinality(ReferencedBy(<<"g">>)) = 2
    /\ Cardinality(ChecksOf(<<"g">>)) = 1
    /\ Cardinality(CreationsOf(<<"g">>)) = 1
    /\ \E i \in DOMAIN Issued : Issued[i].api = "register_task_definition"

----------------------------------------------------------------------------
\* utils.change_keys with lowerCaseFirstLetter. A structure is a tree of nodes:
\* a scalar, a list of structures, or a dict of keys and structures kept in
\* insertion order. Keys and scalars are sequences of characters.

MaxNodes == 3

Scalar(v) == [type |-> "scalar", v |-> v, keys |-> <<>>, items |-> <<>>]

List(items) == [type |-> "list", v |-> <<>>, keys |-> <<>>, items |-> items]

Dict(keys, items) == [type |-> "dict", v |-> <<>>, keys |-> keys, items |-> items]

\* scalar leaves: a string and a number
Scalars == {Scalar(<<"N", "a">>), Scalar(<<"1">>)}

\* keys of mappings, the empty key among them
Keys == {<<>>, <<"A">>, <<"a">>, <<"A", "B">>}

\* the key sequences of a dict of k entries: its keys are distinct
KeySeqs(k) == {ks \in [1..k -> Keys] : \A i, j \in 1..k : i # j => ks[i] # ks[j]}

\* Sized(n): the structures of n nodes; Forests(n, k): the sequences of k
\* structures of n nodes in all
RECURSIVE Sized(_), Forests(_, _)
Sized(n) ==
    (IF n = 1 THEN Scalars ELSE {})
        \cup UNION {{List(f) : f \in Forests(n - 1, k)} : k \in 0..(n - 1)}
        \cup UNION {{Dict(ks, f) : ks \in KeySeqs(k), f \in Forests(n - 1, k)} :
                        k \in 0..(n - 1)}

Forests(n, k) ==
    IF k = 0 THEN (IF n = 0 THEN {<<>>} ELSE {})
    ELSE UNION {{<<t>> \o f : t \in Sized(m), f \in Forests(n - m, k - 1)} :
                    m \in 1..(n - (k - 1))}

\* the structures of up to n nodes
Structures(n) == UNION {Sized(m) : m \in 1..n}

\* str.lower() of one character
Lower(c) ==
    CASE c = "A" -> "a" [] c = "B" -> "b" [] c = "C" -> "c" [] c = "F" -> "f"
      [] c = "I" -> "i" [] c = "L" -> "l" [] c = "N" -> "n" [] c = "O" -> "o"
      [] c = "T" -> "t" [] OTHER -> c

\* str[0].swapcase() + str[1:]
swapCaseFirstLetter(str) ==
    IF str = <<>> THEN Raise("IndexError")
    ELSE Return(<<IF Lower(str[1]) = str[1] THEN "A" ELSE Lower(str[1])>> \o Tail(str))

\* str[0].lower() + str[1:]; str[0] of the empty string raises IndexError
lowerCaseFirstLetter(str) ==
    IF str = <<>> THEN Raise("IndexError")
    ELSE Return(<<Lower(str[1])>> \o Tail(str))

\* new[k] = v on a dict in insertion order: an existing key keeps its place
SetItem(new, k, v) ==
    IF \E i \in DOMAIN new.keys : new.keys[i] = k
    THEN Dict(new.keys, [i \in DOMAIN new.items |->
                            IF new.keys[i] = k THEN v ELSE new.items[i]])
    ELSE Dict(Append(new.keys, k), Append(new.items, v))

\* change_keys(obj, convert=lowerCaseFirstLetter); ChangeItems is the loop over
\* obj.items() filling new, ChangeList the generator over a list
RECURSIVE change_keys(_), ChangeItems(_, _, _), ChangeList(_, _)
change_keys(obj) ==
    IF obj.type = "scalar" THEN Return(obj)
    ELSE IF obj.type = "dict" THEN ChangeItems(obj.keys, obj.items, Dict(<<>>, <<>>))
    ELSE ChangeList(obj.items, <<>>)

ChangeItems(keys, items, new) ==
    IF keys = <<>> THEN Return(new)
    ELSE LET v == change_keys(Head(items))
             k == lowerCaseFirstLetter(Head(keys))
         IN  IF v.raised # "none" THEN v
             ELSE IF k.raised # "none" THEN Raise(k.raised)
             ELSE ChangeItems(Tail(keys), Tail(items),
                              SetItem(new, The(k.value), The(v.value)))

ChangeList(items, new) ==
    IF items = <<>> THEN Return(List(new))
    ELSE LET v == change_keys(Head(items))
         IN  IF v.raised # "none" THEN v
             ELSE ChangeList(Tail(items), Append(new, The(v.value)))

InitKeys ==
    /\ NoWorkflow
    /\ input \in Structures(MaxNodes)
    /\ output = <<>>

\* change_keys applied to the structure, then to what it returned
apply_change_keys ==
    /\ Len(output) < 2
    /\ IF output = <<>>
       THEN output' = <<change_keys(input)>>
       ELSE /\ output[Len(output)].raised = "none"
            /\ output' = Append(output, change_keys(The(output[Len(output)].value)))
    /\ UNCHANGED <<pc, cmd, service_def, task_arn, calls, result, latestRev, service, rule, input>>

SpecKeys == InitKeys /\ [][apply_change_keys]_vars

----------------------------------------------------------------------------
\* Properties of key normalization

\* C12: applying change_keys with lowerCaseFirstLetter to its own result
\* returns that result again.
C12_Idempotent == Len(output) = 2 => output[2] = output[1]

\* a mapping nested in a list nested in a mapping was normalized twice, and the
\* first application changed it
C12_Witness ==
    /\ Len(output) = 2
    /\ output[1] # Return(input)
    /\ input.type = "dict"
    /\ \E i \in DOMAIN input.items :
        /\ input.items[i].type = "list"
        /\ \E j \in DOMAIN input.items[i].items : input.items[i].items[j].type = "dict"

\* new is old with the first character of every key lower-cased, and nothing
\* else changed
RECURSIVE Normalized(_, _)
Normalized(old, new) ==
    /\ new.type = old.type
    /\ new.v = old.v
    /\ Len(new.items) = Len(old.items)
    /\ Len(new.keys) = Len(old.keys)
    /\ \A i \in DOMAIN old.keys :
        new.keys[i] = IF old.keys[i] = <<>> THEN <<>>
                      ELSE <<Lower(old.keys[i][1])>> \o Tail(old.keys[i])
    /\ \A i \in DOMAIN old.items : Normalized(old.items[i], new.items[i])

\* C13: change_keys with lowerCaseFirstLetter returns for every structure, and
\* what it returns has the shape and the leaves of the structure, with the
\* first character of every key lower-cased.
C13_Total ==
    Len(output) >= 1 =>
        /\ output[1].raised = "none"
        /\ Normalized(input, The(output[1].value))

----------------------------------------------------------------------------
\* get_service_def_from_file in detail: the shared cluster file and the service
\* file, the two template passes and the log configuration. The text of a file
\* is held as the structure YAML reads from it, its keys and scalars being
\* sequences of characters in which a placeholder {{X}} is one element.

\* the keys of the files, written as first character and rest
KeyTaskDefinition == <<"T", "askDefinition">>

KeyFamily == <<"F", "amily">>

KeyContainerDefinitions == <<"C", "ontainerDefinitions">>

KeyImage == <<"I", "mage">>

KeyLogConfiguration == <<"L", "ogConfiguration">>

KeyLogDriver == <<"L", "ogDriver">>

KeyOptions == <<"O", "ptions">>

KeyGroup == <<"a", "wslogs-group">>

\* convert(k) of a key that is not empty
Lowered(k) == <<Lower(k[1])>> \o Tail(k)

\* k in d, d[k] for a dict node
HasKey(d, k) == \E i \in DOMAIN d.keys : d.keys[i] = k

Item(d, k) == d.items[CHOOSE i \in DOMAIN d.keys : d.keys[i] = k]

\* the placeholders of the templates and the variables they name
Placeholders == {"{{CLUSTER_NAME}}", "{{REGION}}", "{{FAMILY}}", "{{ENV}}"}

Variable(t) ==
    CASE t = "{{CLUSTER_NAME}}" -> "CLUSTER_NAME" [] t = "{{REGION}}" -> "REGION"
      [] t = "{{FAMILY}}" -> "FAMILY" [] OTHER -> "ENV"

\* Template(text).render(properties) on a character sequence: a placeholder is
\* replaced by the value of its variable, by nothing when it is undefined
RECURSIVE Render(_, _)
Render(text, properties) ==
    IF text = <<>> THEN <<>>
    ELSE (IF Head(text) \in Placeholders
          THEN (IF Variable(Head(text)) \in DOMAIN properties
                THEN properties[Variable(Head(text))] ELSE <<>>)
          ELSE <<Head(text)>>) \o Render(Tail(text), properties)

\* the render of a whole text, seen on the structure read back from it
RECURSIVE RenderAll(_, _)
RenderAll(obj, properties) ==
    [type |-> obj.type,
     v |-> Render(obj.v, properties),
     keys |-> [i \in DOMAIN obj.keys |-> Render(obj.keys[i], properties)],
     items |-> [i \in DOMAIN obj.items |-> RenderAll(obj.items[i], properties)]]

\* a template pass: which template was rendered and with which properties
Pass(template, properties) == [template |-> template, properties |-> properties]

\* the values of get_default_cluster() and get_default_region()
ClusterName == <<"p", "r", "o", "d">>

Region == <<"e", "u">>

\* shared_config when ./services/<cluster>.yaml does not exist
DefaultSharedConfig ==
    [Properties |-> EmptyDict, LogConfiguration |-> Dict(<<>>, <<>>)]

\* shared_config['Properties'].update({'CLUSTER_NAME': ..., 'REGION': ...})
PropertiesWithCluster(properties) ==
    Put(Put(properties, "CLUSTER_NAME", ClusterName), "REGION", Region)

\* the log configuration rendered with the properties of the first pass
PropertiesWithoutFamily(properties, task_def) == properties

\* shared_config['Properties'].update({'FAMILY': task_def['family']})
PropertiesWithFamily(properties, task_def) ==
    Put(properties, "FAMILY", Item(task_def, Lowered(KeyFamily)).v)

\* cd['logConfiguration'] = log_config only where the container has none
AssignIfMissing(cd, log_config) ==
    IF HasKey(cd, Lowered(KeyLogConfiguration)) THEN cd
    ELSE SetItem(cd, Lowered(KeyLogConfiguration), log_config)

\* cd['logConfiguration'] = log_config
AssignLogConfiguration(cd, log_config) ==
    SetItem(cd, Lowered(KeyLogConfiguration), log_config)

\* what the function hands back: the template passes it made, the exception it
\* raised and the service_def it returned
Rendered(passes, e, value) == [calls |-> passes, raised |-> e, value |-> value]

\* get_service_def_from_file(name, cluster_name). files.shared: the content of
\* the shared cluster file, None when it does not exist; files.service: the
\* content of the service file, None when it does not exist.
get_service_def(files) ==
    LET shared_config == IF files.shared = None THEN DefaultSharedConfig
                         ELSE The(files.shared)
    IN  IF "Properties" \notin DOMAIN shared_config THEN Rendered(<<>>, "KeyError", None)
        ELSE IF files.service = None THEN Rendered(<<>>, "FileNotFoundError", None)
        ELSE
    LET properties == PropertiesWithCluster(shared_config["Properties"])
        first == Pass("service", properties)
        read_def == RenderAll(The(files.service), properties)
    IN  IF ~HasKey(read_def, KeyTaskDefinition) THEN Rendered(<<first>>, "KeyError", None)
        ELSE
    LET changed == change_keys(Item(read_def, KeyTaskDefinition))
    IN  IF changed.raised # "none" THEN Rendered(<<first>>, changed.raised, None)
        ELSE IF "LogConfiguration" \notin DOMAIN shared_config
        THEN Rendered(<<first>>, "KeyError", None)
        ELSE
    LET task_def == The(changed.value)
        log_changed == change_keys(shared_config["LogConfiguration"])
    IN  IF log_changed.raised # "none" THEN Rendered(<<first>>, log_changed.raised, None)
        ELSE IF ~HasKey(task_def, Lowered(KeyFamily)) THEN Rendered(<<first>>, "KeyError", None)
        ELSE
    LET with_family == PropertiesWithFamily(properties, task_def)
        second == Pass("log", with_family)
        log_config == RenderAll(The(log_changed.value), with_family)
    IN  IF ~HasKey(task_def, Lowered(KeyContainerDefinitions))
        THEN Rendered(<<first, second>>, "KeyError", None)
        ELSE
    LET cds == Item(task_def, Lowered(KeyContainerDefinitions))
        assigned == List([i \in DOMAIN cds.items |->
                            AssignLogConfiguration(cds.items[i], log_config)])
        filled == SetItem(task_def, Lowered(KeyContainerDefinitions), assigned)
    IN  Rendered(<<first, second>>, "none",
                 Some(SetItem(read_def, KeyTaskDefinition, filled)))

\* the log configurations a file may hold
LogConfigurationFile(driver, group) ==
    Dict(<<KeyLogDriver, KeyOptions>>,
         <<Scalar(driver), Dict(<<KeyGroup>>, <<Scalar(group)>>)>>)

\* the shared cluster files: none, one with an awslogs configuration naming the
\* family, one with properties of its own, FAMILY among them, one without
\* LogConfiguration and one without Properties
SharedFiles ==
    {None,
     Some([Properties |-> EmptyDict,
           LogConfiguration |->
               LogConfigurationFile(<<"awslogs">>, <<"{{CLUSTER_NAME}}", "/", "{{FAMILY}}">>)]),
     Some([Properties |-> [ENV |-> <<"d", "e", "v">>, FAMILY |-> <<"s">>],
           LogConfiguration |->
               LogConfigurationFile(<<"json-file">>, <<"{{ENV}}", "/", "{{FAMILY}}">>)]),
     Some([Properties |-> EmptyDict]),
     Some([LogConfiguration |-> Dict(<<>>, <<>>)])}

\* the containers of a service file: an image that names the family or not,
\* with or without a log configuration of its own
ContainerFiles ==
    {Dict(<<KeyImage>>, <<Scalar(img)>>) :
        img \in {<<"i", "m", "g">>, <<"i", "m", "g", ":", "{{FAMILY}}">>}}
    \cup {Dict(<<KeyImage, KeyLogConfiguration>>,
               <<Scalar(img), LogConfigurationFile(<<"syslog">>, <<"o", "w", "n">>)>>) :
            img \in {<<"i", "m", "g">>, <<"i", "m", "g", ":", "{{FAMILY}}">>}}

FamilyTexts == {<<"w", "e", "b">>, <<"{{CLUSTER_NAME}}", "-", "w", "e", "b">>}

\* the service files: none, one without TaskDefinition, task definitions
\* without family or without containers, and complete ones
ServiceFiles ==
    {None, Some(Dict(<<>>, <<>>)),
     Some(Dict(<<KeyTaskDefinition>>,
               <<Dict(<<KeyContainerDefinitions>>, <<List(<<>>)>>)>>))}
    \cup {Some(Dict(<<KeyTaskDefinition>>, <<Dict(<<KeyFamily>>, <<Scalar(fam)>>)>>)) :
            fam \in FamilyTexts}
    \cup {Some(Dict(<<KeyTaskDefinition>>,
                    <<Dict(<<KeyFamily, KeyContainerDefinitions>>,
                           <<Scalar(fam), List(cds)>>)>>)) :
            fam \in FamilyTexts,
            cds \in UNION {[1..n -> ContainerFiles] : n \in 0..MaxContainers}}

InitRender ==
    /\ NoWorkflow
    /\ input \in [shared : SharedFiles, service : ServiceFiles]
    /\ output = None

apply_get_service_def ==
    /\ output = None
    /\ output' = Some(get_service_def(input))
    /\ UNCHANGED <<pc, cmd, service_def, task_arn, calls, result, latestRev, service, rule, input>>

SpecRender == InitRender /\ [][apply_get_service_def]_vars

----------------------------------------------------------------------------
\* Properties of get_service_def_from_file

\* the passes made and the definition returned
Passes == The(output).calls

Returned == output # None /\ The(output).raised = "none"

ReturnedTaskDef == Item(The(The(output).value), KeyTaskDefinition)

ReturnedFamily == Item(ReturnedTaskDef, Lowered(KeyFamily)).v

ReturnedContainers == Item(ReturnedTaskDef, Lowered(KeyContainerDefinitions)).items

\* the containers as the service file has them
FileContainers ==
    Item(Item(The(input.service), KeyTaskDefinition), KeyContainerDefinitions).items

\* C14: the pass over the service file is made with properties that hold
\* CLUSTER_NAME and REGION and in which FAMILY is not the family of the task
\* definition, so that {{FAMILY}} in an image is not replaced by the family; the
\* pass over the log configuration comes after it, with FAMILY the family of
\* the task definition.
C14_FamilyOnlyInLogPass ==
    Returned =>
        /\ Len(Passes) = 2
        /\ Passes[1].template = "service"
        /\ {"CLUSTER_NAME", "REGION"} \subseteq DOMAIN Passes[1].properties
        /\ Get(Passes[1].properties, "FAMILY") # Some(ReturnedFamily)
        /\ \A i \in DOMAIN ReturnedContainers :
            "{{FAMILY}}" \in {FileContainers[i].items[1].v[j] :
                                j \in DOMAIN FileContainers[i].items[1].v} =>
                Item(ReturnedContainers[i], Lowered(KeyImage)).v
                    # Render(FileContainers[i].items[1].v,
                             Put(Passes[1].properties, "FAMILY", ReturnedFamily))
        /\ Passes[2].template = "log"
        /\ Get(Passes[2].properties, "FAMILY") = Some(ReturnedFamily)

\* a definition whose image names {{FAMILY}} was returned, rendered with a
\* shared log configuration that names it too
C14_Witness ==
    /\ Returned
    /\ input.shared # None
    /\ \E i \in DOMAIN ReturnedContainers :
        /\ "{{FAMILY}}" \in {FileContainers[i].items[1].v[j] :
                                j \in DOMAIN FileContainers[i].items[1].v}
        /\ Item(ReturnedContainers[i], Lowered(KeyImage)).v = <<"i", "m", "g", ":">>
        /\ Item(Item(Item(ReturnedContainers[i], Lowered(KeyLogConfiguration)),
                     Lowered(KeyOptions)), KeyGroup).v
                = ClusterName \o <<"/">> \o ReturnedFamily

----------------------------------------------------------------------------
\* utils.chunks and get_services_by_cluster_name: the services of a cluster
\* described in batches

MaxServices == 25

\* chunks(service_ids, 10)
BatchSize == 10

\* ecs.list_services(cluster=cluster, maxResults=100)
MaxResults == 100

\* chunks cutting one element short of size
chunks_short(iterable, size) ==
    LET RECURSIVE cut(_)
        cut(it) ==
            IF it = <<>> THEN <<>>
            ELSE IF Len(it) < size THEN <<it>>
            ELSE <<SubSeq(it, 1, size - 1)>> \o cut(SubSeq(it, size, Len(it)))
    IN  cut(iterable)

\* chunks(iterable, size): tuples of size elements taken from the iterator
\* until it yields an empty one
RECURSIVE chunks(_, _)
chunks(iterable, size) ==
    IF iterable = <<>> THEN <<>>
    ELSE IF Len(iterable) <= size THEN <<iterable>>
    ELSE <<SubSeq(iterable, 1, size)>> \o chunks(SubSeq(iterable, size + 1, Len(iterable)), size)

\* the ARN of the i-th service of the cluster
ServiceArn(i) == <<"arn:aws:ecs", ":service/", i>>

\* s.split(':service/')[-1]
ServiceId(arn) == arn[Len(arn)]

\* what describe_services answers for a batch: the services asked for
Described(c) == [i \in DOMAIN c |-> [serviceName |-> c[i]]]

\* for c in chunks(...): results += ecs.describe_services(...)['services'];
\* dos[i] is the outcome of the i-th describe call
RECURSIVE DescribeBatches(_, _, _, _)
DescribeBatches(batches, dos, issued, results) ==
    IF batches = <<>> THEN [calls |-> issued, raised |-> "none", value |-> Some(results)]
    ELSE LET o == dos[Len(issued)]
             describe == Call("describe_services",
                              [services |-> Head(batches), cluster |-> Cluster], o)
         IN  IF ClientRaises(o)
             THEN [calls |-> Append(issued, describe), raised |-> "ClientError", value |-> None]
             ELSE DescribeBatches(Tail(batches), dos, Append(issued, describe),
                                  results \o Described(Head(batches)))

\* get_services_by_cluster_name(cluster). arns: the serviceArns list_services
\* returns; lo: its outcome; dos: the outcomes of the describe calls
get_services_by_cluster_name(arns, lo, dos) ==
    LET list == Listing("list_services", [cluster |-> Cluster, maxResults |-> MaxResults],
                        lo, arns)
        service_ids == [i \in DOMAIN arns |-> ServiceId(arns[i])]
    IN  IF ClientRaises(lo)
        THEN [calls |-> <<list>>, raised |-> "ClientError", value |-> None]
        ELSE IF service_ids = <<>>
        THEN [calls |-> <<list>>, raised |-> "none", value |-> Some(<<>>)]
        ELSE DescribeBatches(chunks(service_ids, BatchSize), dos, <<list>>, <<>>)

\* the clusters: up to MaxServices services, and the answers of the API to the
\* list call and to each describe call
DescribeInputs ==
    [arns : {[i \in 1..n |-> ServiceArn(i)] : n \in 0..MaxServices},
     lo : Unchecked,
     dos : [1..((MaxServices + BatchSize - 1) \div BatchSize) -> Unchecked]]

InitDescribe ==
    /\ NoWorkflow
    /\ input \in DescribeInputs
    /\ output = None

apply_get_services_by_cluster_name ==
    /\ output = None
    /\ output' = Some(get_services_by_cluster_name(input.arns, input.lo, input.dos))
    /\ UNCHANGED <<pc, cmd, service_def, task_arn, calls, result, latestRev, service, rule, input>>

SpecDescribe == InitDescribe /\ [][apply_get_services_by_cluster_name]_vars

----------------------------------------------------------------------------
\* Properties of the batches

\* the batches asked for, in the order of the describe calls
Batches ==
    LET cs == SelectSeq(The(output).calls, LAMBDA c : c.api = "describe_services")
    IN  [i \in DOMAIN cs |-> cs[i].params.services]

RECURSIVE Concatenated(_)
Concatenated(seqs) == IF seqs = <<>> THEN <<>> ELSE Head(seqs) \o Concatenated(Tail(seqs))

\* the number of services listed and the number of batches they need
Listed == Len(input.arns)

Needed == (Listed + BatchSize - 1) \div BatchSize

\* every batch but the last has BatchSize services, the last at least one
WellSized(batches) ==
    \A i \in DOMAIN batches :
        /\ Len(batches[i]) >= 1
        /\ Len(batches[i]) <= BatchSize
        /\ i < Len(batches) => Len(batches[i]) = BatchSize

\* C15: the describe calls issued are the leading batches of the input cut into
\* batches of 10, the last batch of the input holding the remainder; in every
\* run in which no describe call raised (a call that raises ends the function)
\* there are exactly ceil(n / 10) of them, every batch but the last has size 10
\* and the last is not empty, every service is in exactly one batch and the
\* result lists the services in the order of the input.
C15_BatchesCoverInput ==
    (output # None /\ input.lo = "ok") =>
        /\ Len(Batches) <= Needed
        /\ \A i \in DOMAIN Batches :
            Batches[i] = [j \in 1..(IF i < Needed THEN BatchSize
                                    ELSE Listed - (Needed - 1) * BatchSize) |->
                            (i - 1) * BatchSize + j]
        /\ The(output).raised = "none" =>
            /\ Len(Batches) = Needed
            /\ WellSized(Batches)
            /\ Concatenated(Batches) = [i \in 1..Listed |-> i]
            /\ The(The(output).value) = [i \in 1..Listed |-> [serviceName |-> i]]

\* 25 services were described in three calls of 10, 10 and 5
C15_Witness ==
    /\ output # None
    /\ Listed = 25
    /\ The(output).raised = "none"
    /\ [i \in DOMAIN Batches |-> Len(Batches[i])] = <<10, 10, 5>>

----------------------------------------------------------------------------
\* Properties of the task definition reference

\* the task definition a create_service or update_service call names
ReferenceOf(c) ==
    IF c.api = "create_service" THEN The(c.params["taskDefinition"])
    ELSE c.params["taskDefinition"]

\* C16: in create and in update without a revision, the task definition named
\* in the create_service or update_service call is the one the command
\* registered: the same family and the same revision.
C16_ReferenceIsRegistered ==
    (cmd.op \in {"create", "update"} /\ cmd.rev = None) =>
        \A i \in DOMAIN calls :
            (/\ calls[i].api \in {"create_service", "update_service"}
             /\ "taskDefinition" \in DOMAIN calls[i].params) =>
                ReferenceOf(calls[i]) = The(task_arn)

----------------------------------------------------------------------------
\* Properties of the log groups ensured by register_task_def

\* the positions of the register_task_definition call
Registrations == {i \in DOMAIN Issued : Issued[i].api = "register_task_definition"}

\* the existence check of group n came back with a listing
CheckedOk(n) == \E i \in ChecksOf(n) : ~ClientRaises(Issued[i].outcome)

\* C17: register_task_def creates a group exactly when its existence check
\* listed no group of that very name; it issues register_task_definition only
\* after every referenced group was checked and, where missing, created; when a
\* check or a creation raises, the error propagates and register_task_definition
\* is not issued.
C17_RegisterAfterGroupsEnsured ==
    output # None =>
        /\ \A n \in GroupNames :
            CheckedOk(n) => (CreationsOf(n) # {} <=> n \notin input.lgo[n].listed)
        /\ \A r \in Registrations :
            /\ ~LogCallRaised
            /\ \A n \in GroupNames : ReferencedBy(n) # {} =>
                /\ \E i \in ChecksOf(n) : i < r
                /\ n \in input.lgo[n].listed \/ \E i \in CreationsOf(n) : i < r
            /\ \A i \in DOMAIN Issued : i <= r
        /\ LogCallRaised => Registrations = {} /\ The(output).raised = "ClientError"

\* a group whose listing holds only a longer name was created before the
\* registration, next to a group that was listed by its own name
C17_Witness ==
    /\ output # None
    /\ ReferencedBy(<<"g">>) # {} /\ ReferencedBy(<<"h">>) # {}
    /\ input.lgo[<<"g">>].listed = {<<"g", "x">>}
    /\ <<"h">> \in input.lgo[<<"h">>].listed
    /\ CreationsOf(<<"g">>) # {} /\ CreationsOf(<<"h">>) = {}
    /\ Registrations # {}

----------------------------------------------------------------------------
\* Properties of the log configuration of the containers

\* the shared log configuration with its keys converted, rendered with the
\* properties of the shared file, the cluster, the region and the family; the
\* empty default when there is no shared file
SharedLogConfiguration ==
    IF input.shared = None THEN Dict(<<>>, <<>>)
    ELSE RenderAll(The(change_keys(The(input.shared)["LogConfiguration"]).value),
                   Put(PropertiesWithCluster(The(input.shared)["Properties"]),
                       "FAMILY", ReturnedFamily))

\* C18: when get_service_def_from_file returns, every container of the service
\* file is in the task definition with the rendered shared log configuration as
\* its logConfiguration, whatever log configuration the file gave it; without a
\* shared file that is the empty default.
C18_SharedLogConfigurationEverywhere ==
    Returned =>
        /\ Len(ReturnedContainers) = Len(FileContainers)
        /\ \A i \in DOMAIN ReturnedContainers :
            /\ HasKey(ReturnedContainers[i], Lowered(KeyLogConfiguration))
            /\ Item(ReturnedContainers[i], Lowered(KeyLogConfiguration))
                    = SharedLogConfiguration
            /\ input.shared = None =>
                Item(ReturnedContainers[i], Lowered(KeyLogConfiguration)) = Dict(<<>>, <<>>)

\* a container with a log configuration of its own, next to one without, was
\* returned with the awslogs configuration of the shared file
C18_Witness ==
    /\ Returned
    /\ input.shared # None
    /\ \E i, j \in DOMAIN FileContainers :
        /\ HasKey(FileContainers[i], KeyLogConfiguration)
        /\ ~HasKey(FileContainers[j], KeyLogConfiguration)
        /\ Item(Item(ReturnedContainers[i], Lowered(KeyLogConfiguration)),
                Lowered(KeyLogDriver)).v = <<"awslogs">>

----------------------------------------------------------------------------
\* Properties of update with a revision

\* C19: update with a revision of 1 or more renders no definition, registers
\* no task definition and issues exactly one update_service call, for the task
\* definition "<name>:<rev>" and the desired count asked for; it does not fail
\* before that call.
C19_UpdateToRevision ==
    (pc = "done" /\ cmd.op = "update" /\ cmd.rev # None /\ The(cmd.rev) >= 1) =>
        /\ service_def = None
        /\ At("register_task_definition") = {}
        /\ Cardinality(At("update_service")) = 1
        /\ \A i \in At("update_service") :
            /\ Get(calls[i].params, "taskDefinition")
                    = Some(TaskDefinitionRef(Name, The(cmd.rev)))
            /\ Get(calls[i].params, "desiredCount") = cmd.desired
        /\ result # "UnboundLocalError"

====
